---- MODULE Spec2Model ----
(***************************************************************************)
(* Model of business/dashboards.go of k-charted: the template resolver     *)
(* (two-tier lookup, recursive Include expansion, cycle detection), the    *)
(* GetDashboard fan-out/fan-in with the grouping of its chart workers,     *)
(* buildLabels, buildRuntimesList, DiscoverDashboards and the discovery    *)
(* matcher.                                                                *)
(*                                                                         *)
(* Go strings are modelled as sequences of one-character strings, so that  *)
(* strings.TrimSpace and strings.Split are computed, not assumed.          *)
(***************************************************************************)
EXTENDS Integers, Sequences, FiniteSets, TLC

\* ------------------------------------------------------------------ bounds
\* The templates of the application namespace hold at most MaxItems items
\* altogether.
MaxItems == 3
\* At most MaxGlobal templates are stored in the global namespace.
MaxGlobal == 1
\* The templates of a cluster a dashboard is filled from hold at most
\* MaxCharts items altogether.
MaxCharts == 2
\* The templates a discovery runs on hold at most MaxDiscoveryItems items
\* altogether.
MaxDiscoveryItems == 2
\* A chart has at most MaxLabels group labels and a request asks to group by
\* at most MaxLabels labels.
MaxLabels == 2
\* A request has at most MaxFilters label filters.
MaxFilters == 2
\* A call of buildRuntimesList asks for at most MaxTemplates templates.
MaxTemplates == 2
\* The service has at most MaxRequests GetDashboard requests, one after the
\* other.
MaxRequests == 2

\* ----------------------------------------------------------------- strings
RECURSIVE TrimLeft(_)
TrimLeft(s) ==
    IF s # <<>> /\ Head(s) = " " THEN TrimLeft(Tail(s)) ELSE s

RECURSIVE TrimRight(_)
TrimRight(s) ==
    IF s # <<>> /\ s[Len(s)] = " " THEN TrimRight(SubSeq(s, 1, Len(s) - 1)) ELSE s

\* strings.TrimSpace
TrimSpace(s) == TrimRight(TrimLeft(s))

\* strings.Split(s, sep) for a one-character separator: always at least one part
RECURSIVE Split(_, _)
Split(s, sep) ==
    IF \E i \in 1..Len(s) : s[i] = sep
    THEN LET i == CHOOSE j \in 1..Len(s) :
                      s[j] = sep /\ \A h \in 1..(j - 1) : s[h] # sep
         IN <<SubSeq(s, 1, i - 1)>> \o Split(SubSeq(s, i + 1, Len(s)), sep)
    ELSE <<s>>

\* -------------------------------------------------------------------- data
\* Template names
A == <<"A">>
B == <<"B">>
C == <<"C">>
Names == {A, B, C}

\* params.Namespace and the namespace config.GlobalNamespace may name
AppNamespace == "app"
IstioSystem == "istio-system"

\* v1alpha1.MonitoringDashboardChart: the fields the code under study reads
Chart(name, dataType, metrics) ==
    [Name |-> name, DataType |-> dataType, Metrics |-> metrics]

ZeroChart == Chart(<<>>, "", <<>>)
X1 == Chart(<<"x">>, "raw", <<"m1">>)
X2 == Chart(<<"x">>, "rate", <<"m1", "m2">>)
Y == Chart(<<"y">>, "histogram", <<"m2">>)
G == Chart(<<"g">>, "rate", <<"m1">>)

\* v1alpha1.MonitoringDashboardItem
Item(include, chart) == [Include |-> include, Chart |-> chart]

\* The items the templates of the model are written with: inline charts (two
\* of them share a chart name), an item whose Include is blank, whole-template
\* and chart-scoped includes, one of them padded with spaces.
ItemChoices ==
    { Item(<<>>, X1), Item(<<>>, X2), Item(<<" ">>, Y),
      Item(A, ZeroChart), Item(B, ZeroChart), Item(C, ZeroChart),
      Item(<<"B", "$", "x">>, ZeroChart),
      Item(<<" ", "C", "$", "y", " ">>, ZeroChart) }

\* The items of the clusters dashboards are filled from
DashItemChoices ==
    { Item(<<>>, X1), Item(<<>>, X2), Item(<<" ">>, Y), Item(B, ZeroChart) }

\* the metrics the charts refer to
AllMetrics == {"m1", "m2"}

\* The items of the templates discoveries run on
DiscoveryItemChoices ==
    { Item(<<>>, X1), Item(B, ZeroChart), Item(C, ZeroChart),
      Item(<<"C", "$", "x">>, ZeroChart) }

\* spec.DiscoverOn of a template: none, or the metric m
DiscoverOnChoices == {<<>>, <<"m">>}

\* the metric names the backend reports: none, or n and m (padded)
MetricsChoices == {<<>>, << <<"n">>, <<" ", "m", " ">> >>}

\* spec.Runtime of a template, in ascending order
RuntimeNames == <<"r1", "r2">>

\* A resource slot of the cluster: a stored template or nothing
Absent == [exists |-> FALSE, Items |-> <<>>]
Stored(items) == [exists |-> TRUE, Items |-> items]

\* v1alpha1.MonitoringDashboard, as returned by the cluster API client
Dashboard(ns, name, items) == [Namespace |-> ns, Name |-> name, Items |-> items]
NilDashboard == Dashboard("", <<>>, <<>>)

\* model.MonitoringDashboard, the filled dashboard
Filled(charts, links) == [Charts |-> charts, ExternalLinks |-> links]
NilFilled == Filled(<<>>, "unset")

\* errors
NilErr == [kind |-> "nil", namespace |-> "", template |-> <<>>, loaded |-> {}]
NotFoundErr(ns, name) ==
    [kind |-> "notfound", namespace |-> ns, template |-> name, loaded |-> {}]
PromErr == [kind |-> "prometheus", namespace |-> "", template |-> <<>>, loaded |-> {}]
ClientErr == [kind |-> "client", namespace |-> "", template |-> <<>>, loaded |-> {}]
CircularErr(name, ld) ==
    [kind |-> "circular", namespace |-> "", template |-> name, loaded |-> ld]

VARIABLES
    cluster,          \* [namespace -> [name -> slot]]: the template store
    globalNamespace,  \* in.config.GlobalNamespace ("" when not configured)
    namespace,        \* params.Namespace
    template,         \* the requested template
    k8sUp,            \* whether kubernetes.NewClient succeeds
    k8sClient,        \* in.k8sClient: "nil" or "client"
    k8sCalls,         \* the calls made to client.GetDashboard, in order
    pc,               \* where the request's own goroutine is
    callee,           \* argument of the pending loadAndResolveDashboardResource
    stack,            \* the resolveReferences activations, outermost first
    loaded,           \* the loaded map of one resolution
    ret,              \* what the last loadAndResolveDashboardResource returned
    promUp,           \* whether prometheus.NewClient succeeds
    failing,          \* the metrics whose queries the backend fails
    promClient,       \* in.promClient: "nil" or "client"
    promCalls,        \* the queries sent to the backend: (chart index, metric)
    wg,               \* the WaitGroup counter of GetDashboard
    filledCharts,     \* the pre-sized result slice of GetDashboard
    chartPc,          \* where each chart worker is
    metricAt,         \* the metric reference each chart worker is at
    linksPc,          \* where the links worker is
    externalLinks,    \* the links worker's result
    response,         \* what GetDashboard returned
    allDashboards,    \* runDiscoveryMatcher: the templates, by name
    metrics,          \* runDiscoveryMatcher: the reported metric names
    visited,          \* the templates the first loop has been through
    runtimesMap,      \* runDiscoveryMatcher: the matches, by name
    added,            \* the keys of runtimesMap the second loop has been through
    runtimes,         \* the runtimes list being built, then the result
    conv,             \* a chart worker's locals while it builds its grouping
    sel,              \* buildLabels: its arguments and locals
    templatesNames,   \* buildRuntimesList: the template names asked for
    loadPc,           \* buildRuntimesList: where each load worker is
    dashboards,       \* buildRuntimesList: the pre-sized slice of templates
    newClients,       \* how many clients kubernetes.NewClient has returned
    faults,           \* DiscoverDashboards: what the backends fail and report
    fetchPc,          \* DiscoverDashboards: where the metric-name worker is
    requests          \* how many GetDashboard requests the service has had

discVars == <<allDashboards, metrics, visited, runtimesMap, added, runtimes>>

\* what belongs to the other operations of the service
pureVars == <<conv, sel>>
runtimesVars == <<templatesNames, loadPc, dashboards, newClients>>
discoverVars == <<faults, fetchPc>>

\* what a GetDashboard request leaves as it is
env == <<cluster, globalNamespace, namespace, template, k8sUp, promUp, failing,
         discVars, pureVars, runtimesVars, discoverVars, requests>>

resolverVars == <<k8sClient, k8sCalls, callee, stack, loaded, ret>>

fanVars == <<promCalls, wg, filledCharts, chartPc, metricAt, linksPc,
             externalLinks>>

vars == <<env, resolverVars, fanVars, pc, promClient, response>>

\* all of it but the locals of the chart worker's grouping and of buildLabels
serviceVars == <<cluster, globalNamespace, namespace, template, k8sUp, promUp,
                 failing, discVars, runtimesVars, discoverVars, requests,
                 resolverVars, fanVars, pc, promClient, response>>

\* ------------------------------------------------------------ the clusters
Sum3(f) == f[A] + f[B] + f[C]

\* how many items each template of the application namespace has (-1: no
\* such template)
Total(l) == Sum3([n \in Names |-> IF l[n] < 0 THEN 0 ELSE l[n]])

Lengths(max) == {l \in [Names -> -1..max] : Total(l) <= max}

Offset(l, n) ==
    IF n = A THEN 0
    ELSE IF n = B THEN (IF l[A] < 0 THEN 0 ELSE l[A])
    ELSE (IF l[A] < 0 THEN 0 ELSE l[A]) + (IF l[B] < 0 THEN 0 ELSE l[B])

AppTemplates(l, flat) ==
    [n \in Names |->
        IF l[n] < 0 THEN Absent
        ELSE Stored([i \in 1..l[n] |-> flat[Offset(l, n) + i]])]

GlobalTemplates(held) ==
    [n \in Names |-> IF n \in held THEN Stored(<<Item(<<>>, G)>>) ELSE Absent]

\* ------------------------------------------------------- cluster API client
\* in.k8s(): lazy construction of the cluster API client
k8s(client) ==
    IF client = "nil"
    THEN IF k8sUp THEN [client |-> "client", err |-> NilErr]
                  ELSE [client |-> "nil", err |-> ClientErr]
    ELSE [client |-> client, err |-> NilErr]

\* client.GetDashboard(ns, name) on the cluster: a copy of the stored template
ClientGetDashboard(ns, name) ==
    IF ns \in DOMAIN cluster /\ name \in DOMAIN cluster[ns] /\ cluster[ns][name].exists
    THEN [dashboard |-> Dashboard(ns, name, cluster[ns][name].Items), err |-> NilErr]
    ELSE [dashboard |-> NilDashboard, err |-> NotFoundErr(ns, name)]

\* in.k8sGetDashboard(ns, name), from the client handle and the call log so
\* far: the answer, the handle and the log afterwards
k8sGetDashboard(client, calls, ns, name) ==
    LET k == k8s(client)
    IN IF k.err.kind # "nil"
       THEN [dashboard |-> NilDashboard, err |-> k.err, client |-> k.client,
             calls |-> calls]
       ELSE LET r == ClientGetDashboard(ns, name)
            IN [dashboard |-> r.dashboard, err |-> r.err, client |-> k.client,
                calls |-> Append(calls, [namespace |-> ns, template |-> name])]

\* (mutant) no fallback to the global namespace
loadRawDashboardResource_NoFallback(client, calls, ns, name) ==
    k8sGetDashboard(client, calls, ns, name)

\* in.loadRawDashboardResource(ns, name): the application namespace first,
\* then the global one
loadRawDashboardResource(client, calls, ns, name) ==
    LET r1 == k8sGetDashboard(client, calls, ns, name)
    IN IF r1.err.kind # "nil" /\ globalNamespace # ""
       THEN LET r2 == k8sGetDashboard(r1.client, r1.calls, globalNamespace, name)
            IN IF r2.err.kind # "nil"
               THEN [dashboard |-> NilDashboard, err |-> r2.err,
                     client |-> r2.client, calls |-> r2.calls]
               ELSE r2
       ELSE r1

\* ------------------------------------------------------------ the resolver
\* One activation of resolveReferences: the dashboard being resolved, the
\* index of the item the loop is at, the items resolved so far and the parts
\* of the reference whose template is being loaded.
Frame(dashboard) ==
    [dashboard |-> dashboard, i |-> 1, resolved |-> <<>>, parts |-> <<>>]

Top == stack[Len(stack)]
Pop == SubSeq(stack, 1, Len(stack) - 1)
SetTop(f) == [stack EXCEPT ![Len(stack)] = f]

\* the circular dependency check of loadAndResolveDashboardResource
AlreadyLoaded(ld, name) == name \in ld

\* (mutant) the template is not recorded as loaded
MarkLoaded_Forgotten(ld, name) == ld

\* loaded[template] = true
MarkLoaded(ld, name) == ld \cup {name}

\* the inner loop of resolveReferences: what a reference contributes, given
\* the items of the resolved template it names
RECURSIVE FirstNamed(_, _)
FirstNamed(items, chartName) ==
    IF items = <<>> THEN <<>>
    ELSE IF Head(items).Chart.Name = chartName THEN <<Head(items)>>
    ELSE FirstNamed(Tail(items), chartName)

\* (mutant) the loop does not stop at the first chart of that name
RECURSIVE AllNamed(_, _)
AllNamed(items, chartName) ==
    IF items = <<>> THEN <<>>
    ELSE (IF Head(items).Chart.Name = chartName THEN <<Head(items)>> ELSE <<>>)
             \o AllNamed(Tail(items), chartName)

Contribution_NoBreak(items, parts) ==
    IF Len(parts) > 1 THEN AllNamed(items, parts[2]) ELSE items

\* (mutant) the loop stops after the first item in both branches
Contribution_BreakAlways(items, parts) ==
    IF Len(parts) > 1 THEN FirstNamed(items, parts[2]) ELSE IF items = <<>> THEN <<>> ELSE <<Head(items)>>

Contribution(items, parts) ==
    IF Len(parts) > 1 THEN FirstNamed(items, parts[2]) ELSE items

\* (mutant) the resolved items are not stored in the dashboard
SetItems_Forgotten(dashboard, resolved) == dashboard

\* dashboard.Spec.Items = resolved
SetItems(dashboard, resolved) == [dashboard EXCEPT !.Items = resolved]

\* loadAndResolveDashboardResource up to its call of resolveReferences
LoadAndResolveDashboardResource ==
    /\ pc = "call"
    /\ IF AlreadyLoaded(loaded, callee)
       THEN /\ ret' = [dashboard |-> NilDashboard, err |-> CircularErr(callee, loaded)]
            /\ pc' = "return"
            /\ UNCHANGED <<loaded, stack, k8sClient, k8sCalls>>
       ELSE LET r == loadRawDashboardResource(k8sClient, k8sCalls, namespace, callee)
            IN /\ loaded' = MarkLoaded(loaded, callee)
               /\ k8sClient' = r.client
               /\ k8sCalls' = r.calls
               /\ IF r.err.kind # "nil"
                  THEN /\ ret' = [dashboard |-> NilDashboard, err |-> r.err]
                       /\ pc' = "return"
                       /\ UNCHANGED stack
                  ELSE /\ stack' = Append(stack, Frame(r.dashboard))
                       /\ pc' = "items"
                       /\ UNCHANGED ret
    /\ UNCHANGED <<callee, env, fanVars, promClient, response>>

\* resolveReferences: one item of the loop, up to the call that loads the
\* template an include names
ResolveItem ==
    /\ pc = "items"
    /\ Top.i <= Len(Top.dashboard.Items)
    /\ LET item == Top.dashboard.Items[Top.i]
           reference == TrimSpace(item.Include)
       IN IF reference # <<>>
          THEN LET parts == Split(reference, "$")
               IN /\ callee' = parts[1]
                  /\ stack' = SetTop([Top EXCEPT !.parts = parts])
                  /\ pc' = "call"
          ELSE /\ stack' = SetTop([Top EXCEPT !.resolved = Append(@, item),
                                              !.i = @ + 1])
               /\ UNCHANGED <<callee, pc>>
    /\ UNCHANGED <<loaded, ret, k8sClient, k8sCalls, env, fanVars, promClient,
                   response>>

\* resolveReferences: the included template came back
IncludeReturn ==
    /\ pc = "return"
    /\ stack # <<>>
    /\ IF ret.err.kind # "nil"
       THEN /\ ret' = [dashboard |-> Top.dashboard, err |-> ret.err]
            /\ stack' = Pop
            /\ UNCHANGED pc
       ELSE /\ stack' = SetTop([Top EXCEPT
                   !.resolved = @ \o Contribution(ret.dashboard.Items, Top.parts),
                   !.i = @ + 1])
            /\ pc' = "items"
            /\ UNCHANGED ret
    /\ UNCHANGED <<callee, loaded, k8sClient, k8sCalls, env, fanVars, promClient,
                   response>>

\* resolveReferences: the loop is over, the items are replaced
ResolveReferencesReturn ==
    /\ pc = "items"
    /\ Top.i > Len(Top.dashboard.Items)
    /\ ret' = [dashboard |-> SetItems(Top.dashboard, Top.resolved), err |-> NilErr]
    /\ stack' = Pop
    /\ pc' = "return"
    /\ UNCHANGED <<callee, loaded, k8sClient, k8sCalls, env, fanVars, promClient,
                   response>>

\* the resolution has returned to its caller
Resolved == pc = "return" /\ stack = <<>>

\* ------------------------------------------------------------ GetDashboard
\* in.prom(): lazy construction of the metrics client
prom(client) ==
    IF client = "nil"
    THEN IF promUp THEN [client |-> "client", err |-> NilErr]
                   ELSE [client |-> "nil", err |-> PromErr]
    ELSE [client |-> client, err |-> NilErr]

\* what the backend answers to a query of a kind for a metric
Fetch(query, metric) == [query |-> query, metric |-> metric, err |-> metric \in failing]

\* model.ConvertChart and the fill operations of model.Chart
ZeroFilledChart == [Name |-> <<>>, Metrics |-> <<>>]
ConvertChart(chart) == [Name |-> chart.Name, Metrics |-> <<>>]
FillMetric(filled, ref, metric) ==
    [filled EXCEPT !.Metrics = Append(@, [ref |-> ref, fill |-> "metric", from |-> metric])]
FillHistogram(filled, ref, histo) ==
    [filled EXCEPT !.Metrics = Append(@, [ref |-> ref, fill |-> "histogram", from |-> histo])]

\* (mutant) the links worker is not counted
WaitGroupSize_ChartsOnly(n) == n

\* wg.Add(len(dashboard.Spec.Items) + 1)
WaitGroupSize(n) == n + 1

\* (mutant) the worker reads the loop variable, which has reached the last
\* index by the time the worker runs
SlotOf_LoopVariable(idx, n) == n

\* the index of filledCharts the worker started with idx writes: its own
SlotOf(idx, n) == idx

\* (mutant) a failed query fails the dashboard
ResponseErr_AnyFailure(charts) ==
    IF \E i \in DOMAIN charts : \E m \in DOMAIN charts[i].Metrics :
           charts[i].Metrics[m].from.err
    THEN PromErr ELSE NilErr

\* the error GetDashboard returns with the filled dashboard
ResponseErr(charts) == NilErr

\* (mutant) the map of the request before is passed on
EmptyLoaded_Reused == loaded

\* map[string]bool{}
EmptyLoaded == {}

\* GetDashboard up to its call of loadAndResolveDashboardResource
GetDashboardStart ==
    /\ pc = "start"
    /\ LET p == prom(promClient)
       IN /\ promClient' = p.client
          /\ IF p.err.kind # "nil"
             THEN /\ response' = [returned |-> TRUE, dashboard |-> NilFilled,
                                  err |-> p.err]
                  /\ pc' = "done"
                  /\ UNCHANGED <<callee, loaded>>
             ELSE /\ callee' = template
                  /\ loaded' = EmptyLoaded
                  /\ pc' = "call"
                  /\ UNCHANGED response
    /\ UNCHANGED <<env, fanVars, k8sClient, k8sCalls, stack, ret>>

\* (mutant) only a circular dependency aborts the request
Failed_OnlyCircular(err) == err.kind = "circular"

\* err != nil
Failed(err) == err.kind # "nil"

\* GetDashboard once the template is resolved: the error is returned, or the
\* WaitGroup is armed, the result slice allocated and the workers started
GetDashboardDispatch ==
    /\ pc = "return"
    /\ stack = <<>>
    /\ IF Failed(ret.err)
       THEN /\ response' = [returned |-> TRUE, dashboard |-> NilFilled,
                            err |-> ret.err]
            /\ pc' = "done"
            /\ UNCHANGED fanVars
       ELSE LET n == Len(ret.dashboard.Items)
            IN /\ wg' = WaitGroupSize(n)
               /\ filledCharts' = [i \in 1..n |-> ZeroFilledChart]
               /\ chartPc' = [i \in 1..n |-> "convert"]
               /\ metricAt' = [i \in 1..n |-> 1]
               /\ linksPc' = "fetch"
               /\ pc' = "wait"
               /\ UNCHANGED <<promCalls, externalLinks, response>>
    /\ UNCHANGED <<env, resolverVars, promClient>>

\* a chart worker, up to filledCharts[idx] = model.ConvertChart(chart)
ChartConvert(idx) ==
    /\ idx \in DOMAIN chartPc
    /\ chartPc[idx] = "convert"
    /\ LET chart == ret.dashboard.Items[idx].Chart
           slot == SlotOf(idx, Len(filledCharts))
       IN /\ filledCharts' = [filledCharts EXCEPT ![slot] = ConvertChart(chart)]
          /\ chartPc' = [chartPc EXCEPT
                           ![idx] = IF chart.Metrics = <<>> THEN "exit" ELSE "fetch"]
    /\ UNCHANGED <<env, resolverVars, pc, promClient, response, promCalls, wg,
                   metricAt, linksPc, externalLinks>>

\* a chart worker: the query of one metric reference and its fill
ChartFetch(idx) ==
    /\ idx \in DOMAIN chartPc
    /\ chartPc[idx] = "fetch"
    /\ LET chart == ret.dashboard.Items[idx].Chart
           slot == SlotOf(idx, Len(filledCharts))
           ref == chart.Metrics[metricAt[idx]]
           query == IF chart.DataType = "raw" THEN "range"
                    ELSE IF chart.DataType = "rate" THEN "rate"
                    ELSE "histogram"
           answer == Fetch(query, ref)
       IN /\ promCalls' = promCalls \cup {[chart |-> idx, query |-> query, metric |-> ref]}
          /\ filledCharts' = [filledCharts EXCEPT ![slot] =
                                 IF query = "histogram"
                                 THEN FillHistogram(@, ref, answer)
                                 ELSE FillMetric(@, ref, answer)]
          /\ metricAt' = [metricAt EXCEPT ![idx] = @ + 1]
          /\ chartPc' = [chartPc EXCEPT
                           ![idx] = IF metricAt[idx] = Len(chart.Metrics)
                                    THEN "exit" ELSE "fetch"]
    /\ UNCHANGED <<env, resolverVars, pc, promClient, response, wg, linksPc,
                   externalLinks>>

\* a chart worker: the deferred wg.Done()
ChartDone(idx) ==
    /\ idx \in DOMAIN chartPc
    /\ chartPc[idx] = "exit"
    /\ wg' = wg - 1
    /\ chartPc' = [chartPc EXCEPT ![idx] = "done"]
    /\ UNCHANGED <<env, resolverVars, pc, promClient, response, promCalls,
                   filledCharts, metricAt, linksPc, externalLinks>>

\* the links worker: GetGrafanaLinks answers links, or none
LinksFetch ==
    /\ linksPc = "fetch"
    /\ \E links \in {"links", "nil"} :
          externalLinks' = IF links # "nil" THEN links ELSE "empty"
    /\ linksPc' = "exit"
    /\ UNCHANGED <<env, resolverVars, pc, promClient, response, promCalls, wg,
                   filledCharts, chartPc, metricAt>>

\* the links worker: the deferred wg.Done()
LinksDone ==
    /\ linksPc = "exit"
    /\ wg' = wg - 1
    /\ linksPc' = "done"
    /\ UNCHANGED <<env, resolverVars, pc, promClient, response, promCalls,
                   filledCharts, chartPc, metricAt, externalLinks>>

\* GetDashboard: wg.Wait() returns and the dashboard is assembled
GetDashboardReturn ==
    /\ pc = "wait"
    /\ wg = 0
    /\ response' = [returned |-> TRUE,
                    dashboard |-> Filled(filledCharts, externalLinks),
                    err |-> ResponseErr(filledCharts)]
    /\ pc' = "done"
    /\ UNCHANGED <<env, resolverVars, fanVars, promClient>>

\* the service is called again: GetDashboard starts with new locals, the
\* service keeps its clients
GetDashboardAgain ==
    /\ pc = "done"
    /\ requests < MaxRequests
    /\ requests' = requests + 1
    /\ pc' = "start"
    /\ k8sCalls' = <<>>
    /\ ret' = [dashboard |-> NilDashboard, err |-> NilErr]
    /\ promCalls' = {}
    /\ filledCharts' = <<>>
    /\ chartPc' = <<>>
    /\ metricAt' = <<>>
    /\ linksPc' = "none"
    /\ externalLinks' = "unset"
    /\ response' = [returned |-> FALSE, dashboard |-> NilFilled, err |-> NilErr]
    /\ UNCHANGED <<cluster, globalNamespace, namespace, template, k8sUp, promUp,
                   failing, discVars, pureVars, runtimesVars, discoverVars,
                   k8sClient, promClient, callee, stack, loaded, wg>>

\* --------------------------------------------------------------- discovery
\* v1alpha1.MonitoringDashboard as the discovery reads it
Template(name, discoverOn, runtime, items) ==
    [Name |-> name, DiscoverOn |-> discoverOn, Runtime |-> runtime,
     Title |-> <<"t">> \o name, Items |-> items]

NilTemplate == Template(<<>>, <<>>, "", <<>>)

\* a value of runtimesMap: a pointer to a template, or nil
Pointer(dashboard) == [isNil |-> FALSE, dashboard |-> dashboard]
NilPointer == [isNil |-> TRUE, dashboard |-> NilTemplate]

\* m[k] = v on a Go map
MapSet(m, k, v) == [x \in DOMAIN m \cup {k} |-> IF x = k THEN v ELSE m[x]]

\* the test of runDiscoveryMatcher: discoverOn, trimmed, is not empty and
\* equals a reported metric name, trimmed
Matching(dashboard, ms) ==
    LET matchReference == TrimSpace(dashboard.DiscoverOn)
    IN /\ matchReference # <<>>
       /\ \E i \in DOMAIN ms : matchReference = TrimSpace(ms[i])

\* the key of runtimesMap that an item with an Include sets to nil
IncludedKey(include) == include

\* the loop that marks the included dashboards as already found
RECURSIVE MarkIncluded(_, _)
MarkIncluded(m, items) ==
    IF items = <<>> THEN m
    ELSE MarkIncluded(IF Head(items).Include # <<>>
                      THEN MapSet(m, IncludedKey(Head(items).Include), NilPointer)
                      ELSE m,
                      Tail(items))

\* the body of the first loop of runDiscoveryMatcher for one template
MatchDashboard(m, dashboard, ms) ==
    IF Matching(dashboard, ms)
    THEN MarkIncluded(IF dashboard.Name \in DOMAIN m THEN m
                      ELSE MapSet(m, dashboard.Name, Pointer(dashboard)),
                      dashboard.Items)
    ELSE m

addDashboardToRuntimes(dashboard, rts) ==
    LET runtime == dashboard.Runtime
        ref == [Template |-> dashboard.Name, Title |-> dashboard.Title]
        found == {i \in DOMAIN rts : rts[i].Name = runtime}
    IN IF found # {}
       THEN LET i == CHOOSE j \in found : \A h \in found : j <= h
            IN [rts EXCEPT ![i].DashboardRefs = Append(@, ref)]
       ELSE Append(rts, [Name |-> runtime, DashboardRefs |-> <<ref>>])

\* runtimes[i].Name < runtimes[j].Name
Rank(name) == CHOOSE i \in DOMAIN RuntimeNames : RuntimeNames[i] = name
Less(a, b) == Rank(a.Name) < Rank(b.Name)

\* what sort.Slice may leave: the orders of rts in which no element is
\* followed by a lesser one
Sorted(rts) ==
    {[i \in DOMAIN rts |-> rts[perm[i]]] :
        perm \in {q \in [DOMAIN rts -> DOMAIN rts] :
                     /\ \A i, j \in DOMAIN rts : i # j => q[i] # q[j]
                     /\ \A i, j \in DOMAIN rts : i < j => ~Less(rts[q[j]], rts[q[i]])}}

\* runDiscoveryMatcher, first loop: one template, in the order of the map
MatchVisit(name) ==
    /\ pc = "match"
    /\ name \in DOMAIN allDashboards \ visited
    /\ runtimesMap' = MatchDashboard(runtimesMap, allDashboards[name], metrics)
    /\ visited' = visited \cup {name}
    /\ pc' = IF visited' = DOMAIN allDashboards THEN "add" ELSE "match"
    /\ UNCHANGED <<allDashboards, metrics, added, runtimes>>
    /\ UNCHANGED <<cluster, globalNamespace, namespace, template, k8sUp, promUp,
                   failing, resolverVars, fanVars, promClient, response>>
    /\ UNCHANGED <<pureVars, runtimesVars, discoverVars, requests>>

\* runDiscoveryMatcher, second loop: one key, in the order of the map
AddVisit(key) ==
    /\ pc = "add"
    /\ key \in DOMAIN runtimesMap \ added
    /\ runtimes' = IF runtimesMap[key].isNil THEN runtimes
                   ELSE addDashboardToRuntimes(runtimesMap[key].dashboard, runtimes)
    /\ added' = added \cup {key}
    /\ UNCHANGED <<allDashboards, metrics, visited, runtimesMap, pc>>
    /\ UNCHANGED <<cluster, globalNamespace, namespace, template, k8sUp, promUp,
                   failing, resolverVars, fanVars, promClient, response>>
    /\ UNCHANGED <<pureVars, runtimesVars, discoverVars, requests>>

\* runDiscoveryMatcher: the runtimes are sorted and returned
DiscoveryReturn ==
    /\ pc = "add"
    /\ added = DOMAIN runtimesMap
    /\ runtimes' \in Sorted(runtimes)
    /\ pc' = "discovered"
    /\ UNCHANGED <<allDashboards, metrics, visited, runtimesMap, added>>
    /\ UNCHANGED <<cluster, globalNamespace, namespace, template, k8sUp, promUp,
                   failing, resolverVars, fanVars, promClient, response>>
    /\ UNCHANGED <<pureVars, runtimesVars, discoverVars, requests>>

\* ----------------------------------------------------------- specifications
\* The clusters and configurations a request runs against: at most max items
\* drawn from choices in the application namespace, at most maxGlobal
\* templates in the global one. What cannot be told apart is taken once: no
\* global template without a global namespace, an empty cluster when no
\* client can be built.
InitCluster(max, choices, maxGlobal) ==
    /\ k8sUp \in BOOLEAN
    /\ globalNamespace \in {"", IstioSystem}
    /\ namespace = AppNamespace
    /\ template = A
    /\ \E l \in Lengths(max) :
         \E flat \in [1..Total(l) -> choices] :
           \E held \in {h \in SUBSET Names : Cardinality(h) <= maxGlobal} :
              /\ (globalNamespace = "" => held = {})
              /\ (~k8sUp => held = {} /\ l = [n \in Names |-> -1])
              /\ cluster = [ns \in {AppNamespace, IstioSystem} |->
                              IF ns = AppNamespace THEN AppTemplates(l, flat)
                              ELSE GlobalTemplates(held)]

\* none of the other operations of the service is under way
InitNoGrouping == conv = [pc |-> "none"]

InitNoLabels == sel = [pc |-> "none"]

InitNoRuntimes ==
    /\ templatesNames = <<>>
    /\ loadPc = <<>>
    /\ dashboards = <<>>
    /\ newClients = 0

InitNoDiscover ==
    /\ faults = [lists |-> {}, metrics |-> FALSE, reported |-> <<>>]
    /\ fetchPc = "none"

InitNoOther ==
    /\ InitNoGrouping
    /\ InitNoLabels
    /\ InitNoRuntimes
    /\ InitNoDiscover
    /\ requests = 1

\* no discovery is under way
InitNoDiscovery ==
    /\ InitNoOther
    /\ allDashboards = <<>>
    /\ metrics = <<>>
    /\ visited = {}
    /\ runtimesMap = <<>>
    /\ added = {}
    /\ runtimes = <<>>

\* no request has dispatched anything
InitFan ==
    /\ promCalls = {}
    /\ wg = 0
    /\ filledCharts = <<>>
    /\ chartPc = <<>>
    /\ metricAt = <<>>
    /\ linksPc = "none"
    /\ externalLinks = "unset"
    /\ response = [returned |-> FALSE, dashboard |-> NilFilled, err |-> NilErr]
    /\ InitNoDiscovery

InitResolve ==
    /\ InitCluster(MaxItems, ItemChoices, MaxGlobal)
    /\ promUp = TRUE
    /\ failing = {}
    /\ promClient = "client"
    /\ InitFan
    /\ k8sClient = "nil"
    /\ k8sCalls = <<>>
    /\ pc = "call"
    /\ callee = template
    /\ stack = <<>>
    /\ loaded = {}
    /\ ret = [dashboard |-> NilDashboard, err |-> NilErr]

NextResolve ==
    \/ LoadAndResolveDashboardResource
    \/ ResolveItem
    \/ IncludeReturn
    \/ ResolveReferencesReturn

SpecResolve == InitResolve /\ [][NextResolve]_vars


\* A GetDashboard request on a service whose clients are not built yet
Init ==
    /\ InitCluster(MaxCharts, DashItemChoices, 0)
    /\ promUp \in BOOLEAN
    /\ failing \in SUBSET AllMetrics
    /\ (~promUp => failing = {} /\ ~k8sUp /\ globalNamespace = "")
    /\ promClient = "nil"
    /\ k8sClient = "nil"
    /\ k8sCalls = <<>>
    /\ pc = "start"
    /\ callee = <<>>
    /\ stack = <<>>
    /\ loaded = {}
    /\ ret = [dashboard |-> NilDashboard, err |-> NilErr]
    /\ InitFan

Main ==
    \/ GetDashboardStart
    \/ LoadAndResolveDashboardResource
    \/ ResolveItem
    \/ IncludeReturn
    \/ ResolveReferencesReturn
    \/ GetDashboardDispatch
    \/ GetDashboardReturn
    \/ GetDashboardAgain

Next ==
    \/ GetDashboardStart
    \/ LoadAndResolveDashboardResource
    \/ ResolveItem
    \/ IncludeReturn
    \/ ResolveReferencesReturn
    \/ GetDashboardDispatch
    \/ GetDashboardReturn
    \/ GetDashboardAgain
    \/ \E idx \in DOMAIN chartPc : ChartConvert(idx)
    \/ \E idx \in DOMAIN chartPc : ChartFetch(idx)
    \/ \E idx \in DOMAIN chartPc : ChartDone(idx)
    \/ LinksFetch
    \/ LinksDone

\* Every goroutine that can take a step eventually takes one: the backend
\* calls return and the scheduler starves no goroutine.
Fairness ==
    /\ WF_vars(Main)
    /\ \A idx \in 1..MaxCharts :
          WF_vars(ChartConvert(idx) \/ ChartFetch(idx) \/ ChartDone(idx))
    /\ WF_vars(LinksFetch \/ LinksDone)

Spec == Init /\ [][Next]_vars /\ Fairness

\* A run of runDiscoveryMatcher on the templates and the metric names that
\* DiscoverDashboards hands it
InitDiscovery ==
    /\ \E l \in Lengths(MaxDiscoveryItems) :
         \E flat \in [1..Total(l) -> DiscoveryItemChoices] :
           \E on \in [Names -> DiscoverOnChoices] :
             \E rt \in [Names -> {RuntimeNames[i] : i \in DOMAIN RuntimeNames}] :
               /\ \A n \in Names : l[n] < 0 => on[n] = <<>> /\ rt[n] = RuntimeNames[1]
               /\ allDashboards =
                     [n \in {x \in Names : l[x] >= 0} |->
                         Template(n, on[n], rt[n],
                                  [i \in 1..l[n] |-> flat[Offset(l, n) + i]])]
    /\ metrics \in MetricsChoices
    /\ InitNoOther
    /\ visited = {}
    /\ runtimesMap = <<>>
    /\ added = {}
    /\ runtimes = <<>>
    /\ pc = IF DOMAIN allDashboards = {} THEN "add" ELSE "match"
    /\ cluster = [ns \in {AppNamespace, IstioSystem} |-> [n \in Names |-> Absent]]
    /\ globalNamespace = ""
    /\ namespace = AppNamespace
    /\ template = A
    /\ k8sUp = TRUE
    /\ k8sClient = "client"
    /\ k8sCalls = <<>>
    /\ callee = <<>>
    /\ stack = <<>>
    /\ loaded = {}
    /\ ret = [dashboard |-> NilDashboard, err |-> NilErr]
    /\ promUp = TRUE
    /\ failing = {}
    /\ promClient = "client"
    /\ promCalls = {}
    /\ wg = 0
    /\ filledCharts = <<>>
    /\ chartPc = <<>>
    /\ metricAt = <<>>
    /\ linksPc = "none"
    /\ externalLinks = "unset"
    /\ response = [returned |-> FALSE, dashboard |-> NilFilled, err |-> NilErr]

NextDiscovery ==
    \/ \E name \in Names : MatchVisit(name)
    \/ \E key \in DOMAIN runtimesMap : AddVisit(key)
    \/ DiscoveryReturn

SpecDiscovery == InitDiscovery /\ [][NextDiscovery]_vars

\* ------------------------------------------------ the grouping of a chart
\* the labels charts group and sort by and callers ask to group by
App == <<"a", "p", "p">>
Version == <<"v", "e", "r", "s", "i", "o", "n">>
Zone == <<"z">>
LabelChoices == {App, Version, Zone}

\* chart.SortLabel: none, or one of two labels
SortLabelChoices == {<<>>, Version, App}

\* the lists of at most MaxLabels labels
LabelLists == UNION {[1..n -> LabelChoices] : n \in 0..MaxLabels}

\* strings.Join(elems, sep)
RECURSIVE Join(_, _)
Join(elems, sep) ==
    IF elems = <<>> THEN <<>>
    ELSE IF Len(elems) = 1 THEN elems[1]
    ELSE elems[1] \o sep \o Join(Tail(elems), sep)

\* the loop that looks for the sort label among the labels grouped by
Present(byLabels, sortLabel) ==
    \E i \in DOMAIN byLabels : byLabels[i] = sortLabel

\* (mutant) the sort label is marked for removal whenever there is one
SortLabelGrouping_AlwaysRemoved(byLabels, sortLabel) ==
    IF Len(sortLabel) > 0
    THEN [byLabels |-> IF Present(byLabels, sortLabel) THEN byLabels
                       ELSE Append(byLabels, sortLabel),
          RemoveSortLabel |-> TRUE]
    ELSE [byLabels |-> byLabels, RemoveSortLabel |-> FALSE]

\* the chart worker: grouping by the label used for sorting
SortLabelGrouping(byLabels, sortLabel) ==
    IF Len(sortLabel) > 0 /\ ~Present(byLabels, sortLabel)
    THEN [byLabels |-> Append(byLabels, sortLabel), RemoveSortLabel |-> TRUE]
    ELSE [byLabels |-> byLabels, RemoveSortLabel |-> FALSE]

\* a chart worker, from its conversion parameters to its grouping
ChartGrouping ==
    /\ conv.pc = "start"
    /\ LET byLabels == conv.chart.GroupLabels \o conv.params.ByLabels
           g == SortLabelGrouping(byLabels, conv.chart.SortLabel)
       IN conv' = [conv EXCEPT
                     !.byLabels = g.byLabels,
                     !.conversionParams = [SortLabel |-> conv.chart.SortLabel,
                                           RemoveSortLabel |-> g.RemoveSortLabel],
                     !.grouping = Join(g.byLabels, <<",">>),
                     !.pc = "grouped"]
    /\ UNCHANGED <<serviceVars, sel>>

\* a service whose clients are built and that no request is running on
InitService ==
    /\ cluster = [ns \in {AppNamespace, IstioSystem} |-> [n \in Names |-> Absent]]
    /\ globalNamespace = ""
    /\ namespace = AppNamespace
    /\ template = A
    /\ k8sUp = TRUE
    /\ k8sClient = "client"
    /\ k8sCalls = <<>>
    /\ pc = "idle"
    /\ callee = <<>>
    /\ stack = <<>>
    /\ loaded = {}
    /\ ret = [dashboard |-> NilDashboard, err |-> NilErr]
    /\ promUp = TRUE
    /\ failing = {}
    /\ promClient = "client"
    /\ promCalls = {}
    /\ wg = 0
    /\ filledCharts = <<>>
    /\ chartPc = <<>>
    /\ metricAt = <<>>
    /\ linksPc = "none"
    /\ externalLinks = "unset"
    /\ response = [returned |-> FALSE, dashboard |-> NilFilled, err |-> NilErr]
    /\ allDashboards = <<>>
    /\ metrics = <<>>
    /\ visited = {}
    /\ runtimesMap = <<>>
    /\ added = {}
    /\ runtimes = <<>>

\* A chart worker that starts on a chart with its group labels and sort
\* label, for a request with its byLabels
InitGrouping ==
    /\ \E groupLabels \in LabelLists, byLabels \in LabelLists,
          sortLabel \in SortLabelChoices :
         conv = [pc |-> "start",
                 chart |-> [GroupLabels |-> groupLabels, SortLabel |-> sortLabel],
                 params |-> [ByLabels |-> byLabels],
                 conversionParams |-> [SortLabel |-> <<>>, RemoveSortLabel |-> FALSE],
                 byLabels |-> <<>>,
                 grouping |-> <<>>]
    /\ InitService
    /\ InitNoLabels
    /\ InitNoRuntimes
    /\ InitNoDiscover
    /\ requests = 1

NextGrouping == ChartGrouping

SpecGrouping == InitGrouping /\ [][NextGrouping]_vars

\* ------------------------------------------------------------- buildLabels
\* const defaultNamespaceLabel
defaultNamespaceLabel == <<"n", "a", "m", "e", "s", "p", "a", "c", "e">>

\* in.config.NamespaceLabel: not configured, or a label name
NamespaceLabelChoices == {<<>>, <<"k", "n", "s">>}

\* the target namespaces
TargetChoices == {<<"b">>, <<"b", "k">>}

\* the keys and the values of the label filters
FilterKeys == {<<"a">>, <<"v">>, <<"z", "o">>}
FilterValues == {<<"1">>, <<"2", "0">>}

\* the maps of at most MaxFilters label filters
FilterMaps ==
    UNION {[keys -> FilterValues] :
              keys \in {k \in SUBSET FilterKeys : Cardinality(k) <= MaxFilters}}

\* (mutant) the configured name is used as it is
NamespaceLabelOf_NoDefault(configured) == configured

\* the name of the namespace label: the configured one, or the default
NamespaceLabelOf(configured) ==
    IF configured = <<>> THEN defaultNamespaceLabel ELSE configured

\* fmt.Sprintf(`{%s="%s"`, namespaceLabel, namespace)
OpenSelector(namespaceLabel, ns) ==
    <<"{">> \o namespaceLabel \o <<"=", "\"">> \o ns \o <<"\"">>

\* fmt.Sprintf(`,%s="%s"`, k, v)
FilterConstraint(k, v) == <<",">> \o k \o <<"=", "\"">> \o v \o <<"\"">>

\* buildLabels up to its loop
BuildLabelsStart ==
    /\ sel.pc = "start"
    /\ sel' = [sel EXCEPT
                 !.labels = OpenSelector(NamespaceLabelOf(sel.NamespaceLabel),
                                         sel.namespace),
                 !.pc = "filters"]
    /\ UNCHANGED <<serviceVars, conv>>

\* buildLabels: one label filter, in the order of the map
BuildLabelsFilter(k) ==
    /\ sel.pc = "filters"
    /\ k \in DOMAIN sel.labelsFilters \ sel.seen
    /\ sel' = [sel EXCEPT
                 !.labels = @ \o FilterConstraint(k, sel.labelsFilters[k]),
                 !.seen = @ \cup {k}]
    /\ UNCHANGED <<serviceVars, conv>>

\* buildLabels: the loop is over, the selector is closed and returned
BuildLabelsReturn ==
    /\ sel.pc = "filters"
    /\ sel.seen = DOMAIN sel.labelsFilters
    /\ sel' = [sel EXCEPT !.labels = @ \o <<"}">>, !.pc = "returned"]
    /\ UNCHANGED <<serviceVars, conv>>

\* A call of buildLabels with a target namespace and label filters, on a
\* service with its configuration
InitLabels ==
    /\ \E configured \in NamespaceLabelChoices, ns \in TargetChoices,
          labelsFilters \in FilterMaps :
         sel = [pc |-> "start",
                NamespaceLabel |-> configured,
                namespace |-> ns,
                labelsFilters |-> labelsFilters,
                labels |-> <<>>,
                seen |-> {}]
    /\ InitService
    /\ InitNoGrouping
    /\ InitNoRuntimes
    /\ InitNoDiscover
    /\ requests = 1

NextLabels ==
    \/ BuildLabelsStart
    \/ \E k \in FilterKeys : BuildLabelsFilter(k)
    \/ BuildLabelsReturn

SpecLabels == InitLabels /\ [][NextLabels]_vars

\* ------------------------------------------------------- buildRuntimesList
\* what neither buildRuntimesList nor DiscoverDashboards touches
restVars == <<cluster, globalNamespace, namespace, template, k8sUp, promUp,
              failing, pureVars, requests, callee, stack, loaded, ret,
              promCalls, filledCharts, chartPc, metricAt, linksPc,
              externalLinks, response>>

\* what buildRuntimesList leaves as it is
notRuntimesVars == <<restVars, promClient, discoverVars, allDashboards, metrics,
                     visited, runtimesMap, added>>

\* a stored template with the fields the runtimes are built from
StoredTemplate(t) == [exists |-> TRUE, Items |-> t.Items, Template |-> t]

\* the template names a call asks for: at most MaxTemplates, each once
TemplatesNamesChoices ==
    {names \in UNION {[1..n -> Names] : n \in 1..MaxTemplates} :
        \A i, j \in DOMAIN names : i # j => names[i] # names[j]}

\* buildRuntimesList up to wg.Wait(): the WaitGroup is armed, the slice
\* allocated and one load worker started for each template name
BuildRuntimesListStart ==
    /\ pc = "build"
    /\ wg' = Len(templatesNames)
    /\ dashboards' = [i \in DOMAIN templatesNames |-> NilPointer]
    /\ loadPc' = [i \in DOMAIN templatesNames |-> "check"]
    /\ pc' = "wait"
    /\ UNCHANGED <<notRuntimesVars, templatesNames, newClients, k8sClient,
                   k8sCalls, runtimes>>

\* a load worker in in.k8s(): the test in.k8sClient == nil
LoadK8sCheck(i) ==
    /\ i \in DOMAIN loadPc
    /\ loadPc[i] = "check"
    /\ loadPc' = [loadPc EXCEPT ![i] = IF k8sClient = "nil" THEN "new" ELSE "get"]
    /\ UNCHANGED <<notRuntimesVars, templatesNames, dashboards, newClients,
                   k8sClient, k8sCalls, wg, pc, runtimes>>

\* a load worker in in.k8s(): kubernetes.NewClient() and, when it succeeds,
\* in.k8sClient = client
LoadK8sNew(i) ==
    /\ i \in DOMAIN loadPc
    /\ loadPc[i] = "new"
    /\ IF k8sUp
       THEN /\ newClients' = newClients + 1
            /\ k8sClient' = "client"
       ELSE UNCHANGED <<newClients, k8sClient>>
    /\ loadPc' = [loadPc EXCEPT ![i] = "get"]
    /\ UNCHANGED <<notRuntimesVars, templatesNames, dashboards, k8sCalls, wg,
                   pc, runtimes>>

\* a load worker: the rest of in.loadRawDashboardResource(namespace, tpl) and
\* what it stores in its slot
LoadGet(i) ==
    /\ i \in DOMAIN loadPc
    /\ loadPc[i] = "get"
    /\ LET tpl == templatesNames[i]
           r == loadRawDashboardResource(k8sClient, k8sCalls, namespace, tpl)
       IN /\ k8sCalls' = r.calls
          /\ dashboards' =
                IF r.err.kind # "nil" THEN dashboards
                ELSE [dashboards EXCEPT
                        ![i] = Pointer(cluster[r.dashboard.Namespace][tpl].Template)]
    /\ loadPc' = [loadPc EXCEPT ![i] = "exit"]
    /\ UNCHANGED <<notRuntimesVars, templatesNames, newClients, k8sClient, wg,
                   pc, runtimes>>

\* a load worker: the deferred wg.Done()
LoadDone(i) ==
    /\ i \in DOMAIN loadPc
    /\ loadPc[i] = "exit"
    /\ wg' = wg - 1
    /\ loadPc' = [loadPc EXCEPT ![i] = "done"]
    /\ UNCHANGED <<notRuntimesVars, templatesNames, dashboards, newClients,
                   k8sClient, k8sCalls, pc, runtimes>>

\* the loop of buildRuntimesList over the slice
RECURSIVE AddLoaded(_, _)
AddLoaded(ds, rts) ==
    IF ds = <<>> THEN rts
    ELSE AddLoaded(Tail(ds),
                   IF Head(ds).isNil THEN rts
                   ELSE addDashboardToRuntimes(Head(ds).dashboard, rts))

\* buildRuntimesList: wg.Wait() returns and the runtimes are built
BuildRuntimesListReturn ==
    /\ pc = "wait"
    /\ loadPc # <<>>
    /\ wg = 0
    /\ runtimes' = AddLoaded(dashboards, <<>>)
    /\ pc' = "built"
    /\ UNCHANGED <<notRuntimesVars, runtimesVars, k8sClient, k8sCalls, wg>>

\* A call of buildRuntimesList on a service whose cluster API client may be
\* built already
InitRuntimes ==
    /\ k8sUp \in BOOLEAN
    /\ globalNamespace \in {"", IstioSystem}
    /\ k8sClient \in {"nil", "client"}
    /\ k8sClient = "client" => k8sUp
    /\ \E rt \in [Names -> {""} \cup {RuntimeNames[i] : i \in DOMAIN RuntimeNames}] :
         \E held \in {h \in SUBSET Names : Cardinality(h) <= MaxGlobal} :
            /\ (globalNamespace = "" => held = {})
            /\ (~k8sUp => held = {} /\ \A n \in Names : rt[n] = "")
            /\ cluster =
                 [ns \in {AppNamespace, IstioSystem} |->
                    [n \in Names |->
                       IF ns = AppNamespace
                       THEN IF rt[n] = "" THEN Absent
                            ELSE StoredTemplate(Template(n, <<>>, rt[n], <<>>))
                       ELSE IF n \in held
                            THEN StoredTemplate(Template(n, <<>>, RuntimeNames[1], <<>>))
                            ELSE Absent]]
    /\ templatesNames \in TemplatesNamesChoices
    /\ loadPc = <<>>
    /\ dashboards = <<>>
    /\ newClients = 0
    /\ pc = "build"
    /\ namespace = AppNamespace
    /\ template = A
    /\ k8sCalls = <<>>
    /\ callee = <<>>
    /\ stack = <<>>
    /\ loaded = {}
    /\ ret = [dashboard |-> NilDashboard, err |-> NilErr]
    /\ promUp = TRUE
    /\ failing = {}
    /\ promClient = "client"
    /\ promCalls = {}
    /\ wg = 0
    /\ filledCharts = <<>>
    /\ chartPc = <<>>
    /\ metricAt = <<>>
    /\ linksPc = "none"
    /\ externalLinks = "unset"
    /\ response = [returned |-> FALSE, dashboard |-> NilFilled, err |-> NilErr]
    /\ allDashboards = <<>>
    /\ metrics = <<>>
    /\ visited = {}
    /\ runtimesMap = <<>>
    /\ added = {}
    /\ runtimes = <<>>
    /\ InitNoGrouping
    /\ InitNoLabels
    /\ InitNoDiscover
    /\ requests = 1

NextRuntimes ==
    \/ BuildRuntimesListStart
    \/ \E i \in DOMAIN loadPc : LoadK8sCheck(i)
    \/ \E i \in DOMAIN loadPc : LoadK8sNew(i)
    \/ \E i \in DOMAIN loadPc : LoadGet(i)
    \/ \E i \in DOMAIN loadPc : LoadDone(i)
    \/ BuildRuntimesListReturn

SpecRuntimes == InitRuntimes /\ [][NextRuntimes]_vars

\* ------------------------------------------------------ DiscoverDashboards
\* what DiscoverDashboards leaves as it is before it calls the matcher
notDiscoverVars == <<restVars, runtimesVars, faults>>

\* the error of a failed listing of a namespace
ListErr(ns) == [kind |-> "list", namespace |-> ns, template |-> <<>>, loaded |-> {}]

\* client.GetDashboards(ns) on the cluster: the templates of the namespace,
\* by name, or the error of the listing
ClientGetDashboards(ns) ==
    IF ns \in faults.lists
    THEN [dashboards |-> <<>>, err |-> ListErr(ns)]
    ELSE [dashboards |-> [n \in {x \in Names : cluster[ns][x].exists} |->
                             cluster[ns][n].Template],
          err |-> NilErr]

\* in.k8sGetDashboards(ns), from the client handle
k8sGetDashboards(client, ns) ==
    LET k == k8s(client)
    IN IF k.err.kind # "nil"
       THEN [dashboards |-> <<>>, err |-> k.err, client |-> k.client]
       ELSE LET r == ClientGetDashboards(ns)
            IN [dashboards |-> r.dashboards, err |-> r.err, client |-> k.client]

\* for _, d := range dashboards { all[d.Name] = d }
PutAll(all, ds) ==
    [n \in DOMAIN all \cup DOMAIN ds |-> IF n \in DOMAIN ds THEN ds[n] ELSE all[n]]

\* (mutant) when the listing of the specific namespace fails, the templates
\* of the global namespace are returned without error
loadRawDashboardResources_KeepGlobal(client, ns) ==
    LET none == [dashboards |-> <<>>, err |-> NilErr, client |-> client]
        g == IF globalNamespace # "" THEN k8sGetDashboards(client, globalNamespace)
             ELSE none
    IN IF g.err.kind # "nil"
       THEN [all |-> <<>>, err |-> g.err, client |-> g.client]
       ELSE LET sp == IF ns # globalNamespace THEN k8sGetDashboards(g.client, ns)
                      ELSE [none EXCEPT !.client = g.client]
            IN IF sp.err.kind # "nil"
               THEN [all |-> PutAll(<<>>, g.dashboards), err |-> NilErr,
                     client |-> sp.client]
               ELSE [all |-> PutAll(PutAll(<<>>, g.dashboards), sp.dashboards),
                     err |-> NilErr, client |-> sp.client]

\* in.loadRawDashboardResources(ns): the templates of the global namespace,
\* then those of the specific one over them
loadRawDashboardResources(client, ns) ==
    LET none == [dashboards |-> <<>>, err |-> NilErr, client |-> client]
        g == IF globalNamespace # "" THEN k8sGetDashboards(client, globalNamespace)
             ELSE none
    IN IF g.err.kind # "nil"
       THEN [all |-> <<>>, err |-> g.err, client |-> g.client]
       ELSE LET sp == IF ns # globalNamespace THEN k8sGetDashboards(g.client, ns)
                      ELSE [none EXCEPT !.client = g.client]
            IN IF sp.err.kind # "nil"
               THEN [all |-> <<>>, err |-> sp.err, client |-> sp.client]
               ELSE [all |-> PutAll(PutAll(<<>>, g.dashboards), sp.dashboards),
                     err |-> NilErr, client |-> sp.client]

\* promClient.GetMetricsForLabels(labels): the reported metric names, or no
\* name and an error
GetMetricsForLabels ==
    IF faults.metrics THEN [metrics |-> <<>>, failed |-> TRUE]
    ELSE [metrics |-> faults.reported, failed |-> FALSE]

\* in.fetchMetricNames(namespace, labelsFilters), from the client handle
fetchMetricNames(client) ==
    LET p == prom(client)
    IN IF p.err.kind # "nil"
       THEN [metrics |-> <<>>, client |-> p.client]
       ELSE [metrics |-> GetMetricsForLabels.metrics, client |-> p.client]

\* DiscoverDashboards up to its call of loadRawDashboardResources: the
\* WaitGroup is armed and the metric-name worker started
DiscoverDashboardsStart ==
    /\ pc = "discover"
    /\ wg' = 1
    /\ fetchPc' = "fetch"
    /\ pc' = "load"
    /\ UNCHANGED <<notDiscoverVars, k8sClient, k8sCalls, promClient, discVars>>

\* the metric-name worker: metrics = in.fetchMetricNames(...)
FetchMetricNames ==
    /\ fetchPc = "fetch"
    /\ LET r == fetchMetricNames(promClient)
       IN /\ metrics' = r.metrics
          /\ promClient' = r.client
    /\ fetchPc' = "exit"
    /\ UNCHANGED <<notDiscoverVars, k8sClient, k8sCalls, wg, pc, allDashboards,
                   visited, runtimesMap, added, runtimes>>

\* the metric-name worker: the deferred wg.Done()
FetchDone ==
    /\ fetchPc = "exit"
    /\ wg' = wg - 1
    /\ fetchPc' = "done"
    /\ UNCHANGED <<notDiscoverVars, k8sClient, k8sCalls, promClient, pc, discVars>>

\* DiscoverDashboards: the templates are loaded; when that fails, the empty
\* list of runtimes is returned
LoadRawDashboardResources ==
    /\ pc = "load"
    /\ LET r == loadRawDashboardResources(k8sClient, namespace)
       IN /\ k8sClient' = r.client
          /\ IF r.err.kind # "nil"
             THEN /\ runtimes' = <<>>
                  /\ pc' = "discovered"
                  /\ UNCHANGED allDashboards
             ELSE /\ allDashboards' = r.all
                  /\ pc' = "join"
                  /\ UNCHANGED runtimes
    /\ UNCHANGED <<notDiscoverVars, k8sCalls, promClient, wg, fetchPc, metrics,
                   visited, runtimesMap, added>>

\* DiscoverDashboards: wg.Wait() returns and runDiscoveryMatcher is called
DiscoverJoin ==
    /\ pc = "join"
    /\ wg = 0
    /\ visited' = {}
    /\ runtimesMap' = <<>>
    /\ added' = {}
    /\ runtimes' = <<>>
    /\ pc' = IF DOMAIN allDashboards = {} THEN "add" ELSE "match"
    /\ UNCHANGED <<notDiscoverVars, k8sClient, k8sCalls, promClient, wg, fetchPc,
                   allDashboards, metrics>>

\* the items of template A in the clusters discoveries run on
DiscoverItemsChoices == {<<>>, <<Item(B, ZeroChart)>>}

\* A call of DiscoverDashboards on a service whose clients are not built yet
InitDiscover ==
    /\ k8sUp \in BOOLEAN
    /\ promUp \in BOOLEAN
    /\ globalNamespace \in {"", IstioSystem, AppNamespace}
    /\ \E lists \in SUBSET {AppNamespace, IstioSystem}, failed \in BOOLEAN,
          reported \in MetricsChoices :
         /\ (~k8sUp => lists = {})
         /\ (~promUp => ~failed)
         /\ faults = [lists |-> lists, metrics |-> failed, reported |-> reported]
    /\ \E present \in SUBSET Names, on \in [Names -> DiscoverOnChoices],
          items \in DiscoverItemsChoices :
         \E held \in {h \in SUBSET Names : Cardinality(h) <= MaxGlobal} :
            /\ (globalNamespace # IstioSystem => held = {})
            /\ (~k8sUp => held = {} /\ present = {})
            /\ \A n \in Names \ present : on[n] = <<>>
            /\ (A \notin present => items = <<>>)
            /\ cluster =
                 [ns \in {AppNamespace, IstioSystem} |->
                    [n \in Names |->
                       IF ns = AppNamespace
                       THEN IF n \notin present THEN Absent
                            ELSE StoredTemplate(
                                   Template(n, on[n],
                                            IF n = C THEN RuntimeNames[2]
                                            ELSE RuntimeNames[1],
                                            IF n = A THEN items ELSE <<>>))
                       ELSE IF n \in held
                            THEN StoredTemplate(
                                   Template(n, <<"m">>, RuntimeNames[2], <<>>))
                            ELSE Absent]]
    /\ fetchPc = "none"
    /\ pc = "discover"
    /\ promClient = "nil"
    /\ k8sClient = "nil"
    /\ namespace = AppNamespace
    /\ template = A
    /\ k8sCalls = <<>>
    /\ callee = <<>>
    /\ stack = <<>>
    /\ loaded = {}
    /\ ret = [dashboard |-> NilDashboard, err |-> NilErr]
    /\ failing = {}
    /\ promCalls = {}
    /\ wg = 0
    /\ filledCharts = <<>>
    /\ chartPc = <<>>
    /\ metricAt = <<>>
    /\ linksPc = "none"
    /\ externalLinks = "unset"
    /\ response = [returned |-> FALSE, dashboard |-> NilFilled, err |-> NilErr]
    /\ allDashboards = <<>>
    /\ metrics = <<>>
    /\ visited = {}
    /\ runtimesMap = <<>>
    /\ added = {}
    /\ runtimes = <<>>
    /\ InitNoGrouping
    /\ InitNoLabels
    /\ InitNoRuntimes
    /\ requests = 1

NextDiscover ==
    \/ DiscoverDashboardsStart
    \/ FetchMetricNames
    \/ FetchDone
    \/ LoadRawDashboardResources
    \/ DiscoverJoin
    \/ \E name \in Names : MatchVisit(name)
    \/ \E key \in DOMAIN runtimesMap : AddVisit(key)
    \/ DiscoveryReturn

SpecDiscover == InitDiscover /\ [][NextDiscover]_vars

\* ------------------------------------------------- what the claims speak of
\* The template a name denotes under the override mechanism, read off the
\* cluster: its namespace ("" when no namespace the service looks in has it)
StoredIn(ns, name) ==
    ns \in DOMAIN cluster /\ name \in DOMAIN cluster[ns] /\ cluster[ns][name].exists

Tier(name) ==
    IF ~k8sUp THEN ""
    ELSE IF StoredIn(namespace, name) THEN namespace
    ELSE IF globalNamespace # "" /\ StoredIn(globalNamespace, name) THEN globalNamespace
    ELSE ""

Visible(name) == Tier(name) # ""

ItemsOf(name) == IF Visible(name) THEN cluster[Tier(name)][name].Items ELSE <<>>

IsInclude(item) == TrimSpace(item.Include) # <<>>

\* the template an Include reference names: what precedes the first "$"
RefName(include) == Split(TrimSpace(include), "$")[1]

\* the Include graph
Includes(name) ==
    {RefName(ItemsOf(name)[i].Include) :
        i \in {j \in DOMAIN ItemsOf(name) : IsInclude(ItemsOf(name)[j])}}

\* the Include graph over the names the templates can refer to
IncludeGraph == [n \in Names |-> Includes(n)]

RECURSIVE Closure(_, _)
Closure(g, S) ==
    LET T == S \cup UNION {g[m] : m \in S}
    IN IF T = S THEN S ELSE Closure(g, T)

ReachableFrom(name) == Closure(IncludeGraph, {name})

CycleReachable ==
    LET g == IncludeGraph
    IN \E n \in Closure(g, {template}) : n \in Closure(g, g[n])

AllReachableExist == \A n \in ReachableFrom(template) : Visible(n)

\* the first item of a sequence that has the chart name, if any
FirstMatch(items, chartName) ==
    LET hits == {i \in DOMAIN items : items[i].Chart.Name = chartName}
    IN IF hits = {} THEN <<>>
       ELSE <<items[CHOOSE i \in hits : \A j \in hits : i <= j]>>

\* the expansion of a sequence of items, position by position
RECURSIVE Expansion(_)
Expansion(items) ==
    IF items = <<>> THEN <<>>
    ELSE LET item == Head(items)
             parts == Split(TrimSpace(item.Include), "$")
             own == IF ~IsInclude(item) THEN <<item>>
                    ELSE IF Len(parts) = 1 THEN Expansion(ItemsOf(parts[1]))
                    ELSE FirstMatch(Expansion(ItemsOf(parts[1])), parts[2])
         IN own \o Expansion(Tail(items))

\* The resolutions of the templates an Include cycle is reachable from; the
\* request's goroutine is never suspended for ever.
InitCyclic == InitResolve /\ CycleReachable

SpecCyclic == InitCyclic /\ [][NextResolve]_vars /\ WF_vars(NextResolve)

\* ------------------------------------------------------------------ claims
\* C1 (as stated): whenever an Include cycle is reachable from the requested
\* template, the resolution returns a circular-dependency error.
C1_CycleGivesCircularError ==
    Resolved /\ CycleReachable => ret.err.kind = "circular"

\* C1 (amended): whenever an Include cycle is reachable from the requested
\* template, the resolution terminates and returns an error, never a resolved
\* template; the error is the circular-dependency error when every template
\* reachable from the requested one can be loaded.
C1_CycleNeverResolves ==
    /\ [](Len(stack) <= Cardinality(Names))
    /\ <>(/\ Resolved
          /\ ret.err.kind # "nil"
          /\ (AllReachableExist => ret.err.kind = "circular"))

\* C1 witness: the cycle A -> B -> C -> A was followed to its end and refused
C1_Witness ==
    /\ Resolved
    /\ CycleReachable
    /\ ret.err.kind = "circular"
    /\ ret.err.template = A
    /\ loaded = {A, B, C}

\* C2: when no Include cycle is reachable from the requested template and
\* every reachable template exists, the resolution succeeds.
C2_AcyclicResolves ==
    Resolved /\ ~CycleReachable /\ AllReachableExist => ret.err.kind = "nil"

\* C3: every load of a template name follows the two-tier lookup: the
\* application namespace's version when it has one, and then the global
\* namespace is not consulted; else the global version, without error, when a
\* global namespace is configured and has one; else the error of the global
\* attempt, or of the only attempt when no global namespace is configured.
C3_TwoTierLookup ==
    [][pc = "call" /\ loaded' # loaded =>
         LET name == callee
             made == SubSeq(k8sCalls', Len(k8sCalls) + 1, Len(k8sCalls'))
             toGlobal == {i \in DOMAIN made : made[i].namespace = IstioSystem}
             inApp == k8sUp /\ StoredIn(namespace, name)
             inGlobal == k8sUp /\ globalNamespace # ""
                              /\ StoredIn(globalNamespace, name)
             failure(ns) == IF k8sUp THEN NotFoundErr(ns, name) ELSE ClientErr
         IN /\ inApp =>
                 /\ pc' = "items"
                 /\ stack'[Len(stack')].dashboard
                       = Dashboard(namespace, name, cluster[namespace][name].Items)
                 /\ toGlobal = {}
            /\ ~inApp /\ inGlobal =>
                 /\ pc' = "items"
                 /\ stack'[Len(stack')].dashboard
                       = Dashboard(globalNamespace, name,
                                   cluster[globalNamespace][name].Items)
            /\ ~inApp /\ ~inGlobal /\ globalNamespace # "" =>
                 /\ pc' = "return"
                 /\ ret'.err = failure(globalNamespace)
            /\ ~inApp /\ globalNamespace = "" =>
                 /\ pc' = "return"
                 /\ ret'.err = failure(namespace)
      ]_vars

\* C3 witness: an included template missing in the application namespace
\* was loaded from the global namespace
C3_Witness ==
    /\ Len(stack) = 2
    /\ Top.dashboard.Namespace = IstioSystem
    /\ ~StoredIn(namespace, Top.dashboard.Name)
    /\ Len(k8sCalls) = 3

\* C4: a successful resolution returns the expansion, in source order, of
\* the requested template's items.
C4_SourceOrder ==
    Resolved /\ ret.err.kind = "nil"
        => ret.dashboard.Items = Expansion(ItemsOf(template))

\* C4 witness: a whole-template include between inline items was expanded
C4_Witness ==
    /\ Resolved
    /\ ret.err.kind = "nil"
    /\ Len(ItemsOf(template)) = 2
    /\ ItemsOf(template)[1].Include = B
    /\ ~IsInclude(ItemsOf(template)[2])
    /\ Len(ret.dashboard.Items) = 2

\* C5: a scoped include T$C contributes the first item of the resolved items
\* of T whose chart name is C, hence at most one item, and nothing, without
\* error, when T has no chart of that name.
C5_ScopedInclude ==
    [][pc = "return" /\ stack # <<>> /\ ret.err.kind = "nil"
          /\ Len(Split(TrimSpace(Top.dashboard.Items[Top.i].Include), "$")) > 1 =>
         LET ref == Split(TrimSpace(Top.dashboard.Items[Top.i].Include), "$")
             before == Top.resolved
             after == stack'[Len(stack)].resolved
             items == ret.dashboard.Items
             hits == {i \in DOMAIN items : items[i].Chart.Name = ref[2]}
         IN /\ pc' = "items"
            /\ Len(stack') = Len(stack)
            /\ items = Expansion(ItemsOf(ref[1]))
            /\ hits = {} => after = before
            /\ hits # {} =>
                 after = Append(before,
                                items[CHOOSE i \in hits : \A j \in hits : i <= j])
      ]_vars

\* C5 witness: B has two charts named x and A's include B$x took the first
C5_Witness ==
    /\ Len(stack) = 1
    /\ pc = "items"
    /\ Top.i = 2
    /\ Top.dashboard.Items[1].Include = <<"B", "$", "x">>
    /\ ItemsOf(B) = <<Item(<<>>, X2), Item(<<>>, X1)>>
    /\ Top.resolved = <<Item(<<>>, X2)>>

\* C6: a successful resolution returns inline charts only: no item of the
\* result has a non-empty reference.
C6_NoIncludeLeft ==
    Resolved /\ ret.err.kind = "nil"
        => \A i \in DOMAIN ret.dashboard.Items : ~IsInclude(ret.dashboard.Items[i])

\* C6 witness: a nested include (A includes B, B includes C) was resolved
C6_Witness ==
    /\ Resolved
    /\ ret.err.kind = "nil"
    /\ loaded = {A, B, C}
    /\ B \in Includes(A)
    /\ C \in Includes(B)
    /\ ret.dashboard.Items # <<>>

\* the charts of the resolved template GetDashboard fills
ResolvedCharts == [i \in DOMAIN ret.dashboard.Items |-> ret.dashboard.Items[i].Chart]

\* GetDashboard has returned a dashboard
Returned == response.returned /\ response.err.kind = "nil"

\* C7: GetDashboard returns its dashboard only after every chart worker and
\* the links worker have called Done, N+1 calls in all for N charts, and it
\* does return, also when queries fail.
C7_FullBarrier ==
    /\ [](Returned =>
            /\ Len(chartPc) = Len(ResolvedCharts)
            /\ \A idx \in DOMAIN chartPc : chartPc[idx] = "done"
            /\ linksPc = "done"
            /\ wg = 0)
    /\ [](wg >= 0)
    /\ <>response.returned

\* C7 witness: a dashboard of two charts was returned though a query failed
C7_Witness ==
    /\ Returned
    /\ Len(chartPc) = 2
    /\ \E c \in promCalls : c.metric \in failing

\* C8: the dashboard has one chart per resolved item, the chart at index i
\* being the one built from item i, and a slot of the result slice is written
\* by the worker of that index only.
C8_IndexOwned ==
    /\ [](Returned =>
            /\ Len(response.dashboard.Charts) = Len(ResolvedCharts)
            /\ \A i \in DOMAIN ResolvedCharts :
                  /\ response.dashboard.Charts[i].Name = ResolvedCharts[i].Name
                  /\ [m \in DOMAIN response.dashboard.Charts[i].Metrics |->
                         response.dashboard.Charts[i].Metrics[m].ref]
                       = ResolvedCharts[i].Metrics)
    /\ [][\A i \in DOMAIN filledCharts \cap DOMAIN filledCharts' :
             filledCharts'[i] # filledCharts[i] =>
                 chartPc'[i] # chartPc[i] \/ metricAt'[i] # metricAt[i]]_vars

\* C8 witness: the worker of the second chart has finished, and filled its
\* slot, before the worker of the first chart has started
C8_Witness ==
    /\ Len(chartPc) = 2
    /\ chartPc[1] = "convert"
    /\ chartPc[2] = "done"
    /\ filledCharts[1] = ZeroFilledChart
    /\ filledCharts[2].Name = ResolvedCharts[2].Name
    /\ filledCharts[2].Metrics # <<>>

\* C9: whatever queries fail, GetDashboard returns a dashboard without error,
\* with an entry per resolved item; every query of every chart is sent and a
\* chart whose queries all succeed holds the data of each of them.
C9_PartialFailure ==
    response.returned /\ promUp /\ ret.err.kind = "nil" =>
        /\ response.err.kind = "nil"
        /\ Len(response.dashboard.Charts) = Len(ResolvedCharts)
        /\ \A i \in DOMAIN ResolvedCharts :
              /\ \A m \in DOMAIN ResolvedCharts[i].Metrics :
                    \E c \in promCalls :
                        c.chart = i /\ c.metric = ResolvedCharts[i].Metrics[m]
              /\ (\A m \in DOMAIN ResolvedCharts[i].Metrics :
                      ResolvedCharts[i].Metrics[m] \notin failing) =>
                    /\ Len(response.dashboard.Charts[i].Metrics)
                          = Len(ResolvedCharts[i].Metrics)
                    /\ \A m \in DOMAIN ResolvedCharts[i].Metrics :
                          /\ ~response.dashboard.Charts[i].Metrics[m].from.err
                          /\ response.dashboard.Charts[i].Metrics[m].from.metric
                                = ResolvedCharts[i].Metrics[m]

\* C9 witness: of two charts the query of the second failed and the first
\* holds its data
C9_Witness ==
    /\ Returned
    /\ failing = {"m2"}
    /\ Len(response.dashboard.Charts) = 2
    /\ ResolvedCharts[1] = X1
    /\ ResolvedCharts[2] = Y
    /\ ~response.dashboard.Charts[1].Metrics[1].from.err
    /\ response.dashboard.Charts[2].Metrics[1].from.err

\* the template names the runtimes refer to
Referenced ==
    UNION {{runtimes[i].DashboardRefs[j].Template :
               j \in DOMAIN runtimes[i].DashboardRefs} : i \in DOMAIN runtimes}

\* C10: a template that another, matching template includes, as a whole or
\* for one of its charts, is not referred to by the discovery's result, in
\* whatever order the templates are visited.
C10_IncludedSuppressed ==
    pc = "discovered" =>
        \A p \in DOMAIN allDashboards :
            Matching(allDashboards[p], metrics) =>
                \A i \in DOMAIN allDashboards[p].Items :
                    /\ IsInclude(allDashboards[p].Items[i])
                    /\ RefName(allDashboards[p].Items[i].Include) # p
                    => RefName(allDashboards[p].Items[i].Include) \notin Referenced

\* the result of runDiscoveryMatcher when each of its two loops goes through
\* its map in one fixed order
RECURSIVE MatchAll(_, _)
MatchAll(m, names) ==
    IF names = {} THEN m
    ELSE LET n == CHOOSE x \in names : TRUE
         IN MatchAll(MatchDashboard(m, allDashboards[n], metrics), names \ {n})

RECURSIVE AddAll(_, _, _)
AddAll(m, keys, rts) ==
    IF keys = {} THEN rts
    ELSE LET k == CHOOSE x \in keys : TRUE
         IN AddAll(m, keys \ {k},
                   IF m[k].isNil THEN rts
                   ELSE addDashboardToRuntimes(m[k].dashboard, rts))

FixedOrderResult ==
    LET m == MatchAll(<<>>, DOMAIN allDashboards)
    IN CHOOSE r \in Sorted(AddAll(m, DOMAIN m, <<>>)) : TRUE

\* C11: the result of runDiscoveryMatcher is the same for every order in
\* which the maps are gone through: it is the result of one fixed order,
\* runtimes and the references inside each runtime included.
C11_Deterministic ==
    pc = "discovered" => runtimes = FixedOrderResult

\* C12: the grouping sent to the backend is the chart's group labels, then
\* the request's byLabels, then the chart's sort label exactly when one is
\* declared and is not among them already; RemoveSortLabel is set if and
\* only if the sort label was appended.
C12_SortLabelGrouping ==
    conv.pc = "grouped" =>
        LET requested == conv.chart.GroupLabels \o conv.params.ByLabels
            sortLabel == conv.chart.SortLabel
            appended == /\ sortLabel # <<>>
                        /\ sortLabel \notin {requested[i] : i \in DOMAIN requested}
            expected == IF appended THEN requested \o <<sortLabel>> ELSE requested
        IN /\ IF expected = <<>> THEN conv.grouping = <<>>
              ELSE Split(conv.grouping, ",") = expected
           /\ conv.conversionParams.RemoveSortLabel = appended

\* C12 witness: sortLabel version, groupLabels [app] and no byLabels give
\* the grouping "app,version" with the flag set
C12_Witness ==
    /\ conv.pc = "grouped"
    /\ conv.chart = [GroupLabels |-> <<App>>, SortLabel |-> Version]
    /\ conv.params.ByLabels = <<>>
    /\ conv.grouping = App \o <<",">> \o Version
    /\ conv.conversionParams.RemoveSortLabel

\* C13: buildLabels returns "{", then the namespace label (the configured
\* name, or "namespace" when none is configured) set equal to the target
\* namespace, then one ,key="value" constraint for each label filter and no
\* other, then "}"; with no filter it returns {namespace="<ns>"}.
C13_Selector ==
    sel.pc = "returned" =>
        LET label == IF sel.NamespaceLabel = <<>>
                     THEN <<"n", "a", "m", "e", "s", "p", "a", "c", "e">>
                     ELSE sel.NamespaceLabel
            equals(k, v) == k \o <<"=", "\"">> \o v \o <<"\"">>
            inner == SubSeq(sel.labels, 2, Len(sel.labels) - 1)
            constraints == Split(inner, ",")
            filters == sel.labelsFilters
        IN /\ Len(sel.labels) >= 2
           /\ sel.labels[1] = "{"
           /\ sel.labels[Len(sel.labels)] = "}"
           /\ constraints[1] = equals(label, sel.namespace)
           /\ Len(constraints) = 1 + Cardinality(DOMAIN filters)
           /\ {constraints[i] : i \in 2..Len(constraints)}
                 = {equals(k, filters[k]) : k \in DOMAIN filters}
           /\ DOMAIN filters = {} =>
                 sel.labels = <<"{">> \o equals(label, sel.namespace) \o <<"}">>

\* C13 witness: no namespace label is configured and two filters are given
C13_Witness ==
    /\ sel.pc = "returned"
    /\ sel.NamespaceLabel = <<>>
    /\ sel.namespace = <<"b", "k">>
    /\ DOMAIN sel.labelsFilters = {<<"a">>, <<"z", "o">>}
    /\ SubSeq(sel.labels, 1, 15)
          = <<"{", "n", "a", "m", "e", "s", "p", "a", "c", "e", "=", "\"", "b",
              "k", "\"">>
    /\ Len(sel.labels) > 16

\* C14: over any interleaving of the calls of in.k8s(), the load workers of
\* one buildRuntimesList included, the cluster API client is constructed at
\* most once.
C14_ConstructOnce ==
    newClients <= 1

\* C15: no request returns while a worker it started is still running:
\* DiscoverDashboards has joined its metric-name worker, and
\* buildRuntimesList all its load workers, when it returns.
C15_WorkersJoined ==
    /\ pc = "discovered" => fetchPc = "done"
    /\ pc = "built" => \A i \in DOMAIN loadPc : loadPc[i] = "done"

\* the listing of the templates fails, for the global or the specific
\* namespace
ListingFails ==
    \/ ~k8sUp
    \/ globalNamespace # "" /\ globalNamespace \in faults.lists
    \/ namespace # globalNamespace /\ namespace \in faults.lists

\* the templates of the global namespace with those of the specific one over
\* them
Listed ==
    LET of(ns) == {n \in Names : StoredIn(ns, n)}
        from == IF globalNamespace = "" THEN {namespace}
                ELSE {globalNamespace, namespace}
    IN [n \in UNION {of(ns) : ns \in from} |->
           IF StoredIn(namespace, n) THEN cluster[namespace][n].Template
           ELSE cluster[globalNamespace][n].Template]

\* C16: when the listing of the templates fails, DiscoverDashboards returns
\* no runtime and the matcher is not run, whatever the metric fetch does;
\* when the fetch of the metric names fails and the listing does not, the
\* matcher is run on all the templates with no metric name and the result is
\* the empty list.
C16_FailureModes ==
    pc = "discovered" =>
        /\ ListingFails =>
              /\ runtimes = <<>>
              /\ visited = {}
              /\ runtimesMap = <<>>
        /\ ~ListingFails /\ (~promUp \/ faults.metrics) =>
              /\ fetchPc = "done"
              /\ metrics = <<>>
              /\ allDashboards = Listed
              /\ visited = DOMAIN Listed
              /\ runtimes = <<>>

\* C16 witness: the metric names could not be listed; the matcher went
\* through a template that the reported names would have matched
C16_Witness ==
    /\ pc = "discovered"
    /\ ~ListingFails
    /\ promUp
    /\ faults.metrics
    /\ A \in visited
    /\ Matching(allDashboards[A], faults.reported)
    /\ runtimes = <<>>

\* C17: when the resolution of the requested template fails, GetDashboard
\* returns the error and no dashboard, and no chart worker, no query and no
\* links fetch is ever dispatched for the request.
C17_ResolutionErrorAborts ==
    (Resolved \/ pc = "done") /\ ret.err.kind # "nil" =>
        /\ promCalls = {}
        /\ chartPc = <<>>
        /\ filledCharts = <<>>
        /\ linksPc = "none"
        /\ externalLinks = "unset"
        /\ wg = 0
        /\ response.returned =>
              /\ response.err = ret.err
              /\ response.dashboard = NilFilled

\* C17 witness: the request was aborted because a template included by the
\* requested one is stored in neither namespace
C17_Witness ==
    /\ response.returned
    /\ response.err.kind = "notfound"
    /\ response.err.template = B
    /\ response.err.namespace = IstioSystem
    /\ loaded = {A, B}

\* C18: every error that ends a resolution, a circular dependency or a
\* failed lookup, carries the dependency chain: the template names
\* accumulated in loaded up to the failure.
C18_ErrorCarriesChain ==
    Resolved /\ ret.err.kind \in {"circular", "notfound"}
        => ret.err.loaded = loaded

\* the templates that a matching template includes, as a whole or for one of
\* their charts
Suppressed ==
    {n \in DOMAIN allDashboards :
        \E p \in DOMAIN allDashboards :
           /\ Matching(allDashboards[p], metrics)
           /\ \E i \in DOMAIN allDashboards[p].Items :
                 /\ IsInclude(allDashboards[p].Items[i])
                 /\ RefName(allDashboards[p].Items[i].Include) = n}

MatchedNotSuppressed ==
    {n \in DOMAIN allDashboards : Matching(allDashboards[n], metrics)} \ Suppressed

\* where the result refers to a template: the runtime and the position
RefsTo(n) ==
    {ij \in (DOMAIN runtimes) \X (1..Cardinality(Names)) :
        /\ ij[2] \in DOMAIN runtimes[ij[1]].DashboardRefs
        /\ runtimes[ij[1]].DashboardRefs[ij[2]].Template = n}

\* no template includes itself
NoSelfInclude ==
    \A n \in DOMAIN allDashboards :
        \A i \in DOMAIN allDashboards[n].Items :
            IsInclude(allDashboards[n].Items[i])
                => RefName(allDashboards[n].Items[i].Include) # n

\* C19: in the result of a discovery each runtime name occurs in one entry
\* only; each matched and not suppressed template is referred to exactly
\* once, by its name and title, in the entry of its runtime; no other
\* template is referred to.
C19_RuntimeGrouping ==
    pc = "discovered" /\ NoSelfInclude =>
        /\ \A i, j \in DOMAIN runtimes :
              i # j => runtimes[i].Name # runtimes[j].Name
        /\ \A n \in MatchedNotSuppressed :
              /\ Cardinality(RefsTo(n)) = 1
              /\ \A ij \in RefsTo(n) :
                    /\ runtimes[ij[1]].Name = allDashboards[n].Runtime
                    /\ runtimes[ij[1]].DashboardRefs[ij[2]].Title
                          = allDashboards[n].Title
        /\ Referenced \subseteq MatchedNotSuppressed

\* the template names the request has looked up
LookedUp == {k8sCalls[i].template : i \in DOMAIN k8sCalls}

\* C20: within one resolution loaded only grows; a name is in loaded before
\* it is looked up and no name is looked up twice, so that there are no more
\* loads than template names reachable from the requested one; each
\* GetDashboard request starts its resolution from an empty set of its own.
C20_LoadedGrowsOnce ==
    /\ [][pc # "start" => loaded \subseteq loaded']_vars
    /\ [](pc = "call" /\ stack = <<>> => loaded = {})
    /\ [](pc # "start" =>
            /\ LookedUp \subseteq loaded
            /\ k8sUp => loaded \subseteq LookedUp
            /\ \A i, j \in DOMAIN k8sCalls : i # j => k8sCalls[i] # k8sCalls[j]
            /\ loaded \subseteq ReachableFrom(template)
            /\ Cardinality(LookedUp) <= Cardinality(ReachableFrom(template)))

\* C20 witness: the second request of the service resolved the requested
\* template and the one it includes, as the first had
C20_Witness ==
    /\ requests = 2
    /\ Resolved
    /\ ret.err.kind = "nil"
    /\ loaded = {A, B}
    /\ Len(k8sCalls) = 2

====
